---- MODULE Spec2Model ----
(***************************************************************************)
(* genesis: account management with revocable session tokens and a         *)
(* per-account key/value store, on one flat ordered key space.             *)
(*                                                                         *)
(* The request handlers (package routes) are translated from src/routes    *)
(* and src/unnamed/part_001.  Package core (storage, registry, tokens) is  *)
(* not part of the sources at hand; its operations are modelled from       *)
(* spec.md sections 4.1-4.4.                                               *)
(*                                                                         *)
(* Every request is a process: one step per call into the storage engine,  *)
(* so requests interleave between any two storage calls.                   *)
(***************************************************************************)
EXTENDS Integers, Sequences, FiniteSets, TLC

VARIABLES
    store,      \* the flat key space: encoded key -> [v, exp]
    tokens,     \* tokens issued so far; a token's id is its index
    now,        \* the clock
    req,        \* per process: the request in flight and its position
    last,       \* the response written last
    nreq,       \* requests started so far
    items       \* the DataItems by owner: what set and delete requests made of them

vars == <<store, tokens, now, req, last, nreq, items>>

----------------------------------------------------------------------------
(* Bounds of the model *)

MaxTime == 3
MaxTokens == 2
MaxAccountReqs == 4
MaxTokenReqs == 4
MaxDataReqs == 3
MaxQuotaReqs == 3
MaxLifecycleReqs == 3
MaxUpdateReqs == 3
MaxLogoutReqs == 4

(* Configuration (core.Config) *)

SessionTTL == 2
AppKeysPerUser == 1
AppDataMaxSize == 2

Procs == {1, 2}

Root == <<"a">>
Ab == <<"a", "b">>
BadName == <<"!">>
Names == {Root, Ab}

K1 == <<"k">>
K2 == <<"b", "k">>
K3 == <<"a">>
BadKey == <<"!">>
Keys == {K1, K2, K3}

Passwords == {"pw1", "pw2"}
BadPassword == "x"
Values == {"1", "{}"}
BigValue == "[1]"

\* validate.Struct: a password has 8 to 64 characters
ValidPassword(pw) == pw \in Passwords

AppUserPattern(name) == name \in Names
AppKeyPattern(key) == key \in Keys

getContentLength(val) ==
    CASE val = "1" -> 1
      [] val = "{}" -> 2
      [] val = "[1]" -> 3
      [] OTHER -> 0

----------------------------------------------------------------------------
(* 4.1 Key Namespace Encoder *)

Digits == <<"0", "1", "2", "3", "4", "5", "6", "7", "8", "9">>

Digit(n) == Digits[n + 1]

Num(d) == (CHOOSE i \in 1..Len(Digits) : Digits[i] = d) - 1

IsDigit(d) == \E i \in 1..Len(Digits) : Digits[i] = d

IsPrefix(p, s) == Len(p) <= Len(s) /\ SubSeq(s, 1, Len(p)) = p

\* a variable-length component, length-prefixed
LenPrefixed(s) == <<Digit(Len(s))>> \o s

encode(kind, owner, key) ==
    <<kind>> \o LenPrefixed(owner) \o (IF kind = "d" THEN LenPrefixed(key) ELSE <<>>)

\* the prefix of all DataItems of one owner
dataPrefix(owner) == <<"d">> \o LenPrefixed(owner)

DecodeError == [err |-> TRUE, owner |-> <<>>, key |-> <<>>]

decodeDataKey(k) ==
    IF Len(k) < 3 \/ k[1] # "d" \/ ~IsDigit(k[2]) THEN DecodeError
    ELSE LET n1 == Num(k[2]) IN
         IF Len(k) < 3 + n1 \/ ~IsDigit(k[3 + n1]) THEN DecodeError
         ELSE LET n2 == Num(k[3 + n1]) IN
              IF Len(k) # 3 + n1 + n2 THEN DecodeError
              ELSE [err |-> FALSE,
                    owner |-> SubSeq(k, 3, 2 + n1),
                    key |-> SubSeq(k, 4 + n1, 3 + n1 + n2)]

userKey(name) == encode("u", name, <<>>)
dataKey(owner, key) == encode("d", owner, key)
revokedKey(id) == encode("r", <<Digit(id)>>, <<>>)

----------------------------------------------------------------------------
(* The storage engine: point get/put/delete, prefix scan, time-to-live *)

Has(s, k) == k \in DOMAIN s

Put(s, k, v, exp) ==
    [x \in DOMAIN s \cup {k} |-> IF x = k THEN [v |-> v, exp |-> exp] ELSE s[x]]

Del(s, k) == [x \in DOMAIN s \ {k} |-> s[x]]

DelAll(s, ks) == [x \in DOMAIN s \ ks |-> s[x]]

Scan(s, prefix) == {k \in DOMAIN s : IsPrefix(prefix, k)}

\* entries whose time-to-live has run out at time t are gone
Expire(s, t) == [x \in {k \in DOMAIN s : s[k].exp = 0 \/ t < s[k].exp} |-> s[x]]

----------------------------------------------------------------------------
(* 4.2 User Registry *)

Hash(pw) == <<"digest", pw>>

Verify(digest, pw) == digest = Hash(pw)

NoUser == [nil |-> TRUE, name |-> <<>>, admin |-> FALSE]

GetUser(name) ==
    IF Has(store, userKey(name))
    THEN [nil |-> FALSE, name |-> name, admin |-> store[userKey(name)].v.admin]
    ELSE NoUser

\* check and put in one transaction
CreateUserErr(name) ==
    IF Has(store, userKey(name)) THEN "ErrUserAlreadyExists" ELSE "nil"

CreateUserStore(name, pw, admin) ==
    IF Has(store, userKey(name)) THEN store
    ELSE Put(store, userKey(name), [password |-> Hash(pw), admin |-> admin], 0)

UpdateUserErr(name) ==
    IF Has(store, userKey(name)) THEN "nil" ELSE "NotFound"

\* read-modify-write restricted to the supplied fields ("nil": not supplied):
\* the record is read (UpdateUserErr, ReadUserRecord) and the modified record
\* is put back (UpdateUserStore) in two point operations; create is the one
\* operation whose check and write are a single transaction (section 5)
NoRecord == [password |-> <<>>, admin |-> FALSE]

ReadUserRecord(name) == store[userKey(name)].v

UpdateUserStore(name, old, adm, pw) ==
    Put(store, userKey(name),
        [password |-> IF pw = "nil" THEN old.password ELSE Hash(pw),
         admin |-> IF adm = "nil" THEN old.admin ELSE adm = "true"], 0)

\* DeleteUser removes the account key, then the owner's DataItems
DeleteUserAccount(name) == Del(store, userKey(name))

DeleteUserData(name) == DelAll(store, Scan(store, dataPrefix(name)))

GetUsers(excluding) ==
    {[name |-> n, admin |-> store[userKey(n)].v.admin] :
        n \in {m \in Names \cup {BadName} : Has(store, userKey(m)) /\ m # excluding}}

\* unknown account and wrong password give the same failure
AuthenticateUser(name, pw) ==
    IF Has(store, userKey(name)) /\ Verify(store[userKey(name)].v.password, pw)
    THEN GetUser(name)
    ELSE NoUser

----------------------------------------------------------------------------
(* 4.3 Tenant Data Store *)

GetDataCountForUser(owner, key) == Cardinality(Scan(store, dataPrefix(owner)))

SetDataForUser(owner, key, raw) == Put(store, dataKey(owner, key), raw, 0)

HasData(owner, key) == Has(store, dataKey(owner, key))

GetDataFromUser(owner, key) == store[dataKey(owner, key)].v

DeleteDataFromUser(owner, key) == Del(store, dataKey(owner, key))

GetAllDataFromUser(owner) ==
    {<<decodeDataKey(k).key, store[k].v>> : k \in Scan(store, dataPrefix(owner))}

----------------------------------------------------------------------------
(* 4.4 Session Token Service *)

CreateAuthToken(user) == [user |-> user.name, exp |-> now + SessionTTL]

ParseAuthToken(id) ==
    IF id \notin 1..Len(tokens) THEN "InvalidToken"
    ELSE IF now >= tokens[id].exp THEN "Expired"
    ELSE IF Has(store, revokedKey(id)) THEN "Revoked"
    ELSE "nil"

StoreInvalidatedToken(id, ttl) ==
    IF ttl <= 0 THEN store ELSE Put(store, revokedKey(id), TRUE, now + ttl)

----------------------------------------------------------------------------
(* The DataItems as the requests define them: triples <<owner, key, value>> *)

ItemsOf(owner) == {<<t[2], t[3]>> : t \in {u \in items : u[1] = owner}}

ItemsDelete(owner, key) == {t \in items : ~(t[1] = owner /\ t[2] = key)}

ItemsSet(owner, key, val) == ItemsDelete(owner, key) \cup {<<owner, key, val>>}

ItemsDeleteAll(owner) == {t \in items : t[1] # owner}

----------------------------------------------------------------------------
(* Requests.  A request's body is well-formed JSON with its required fields; *)
(* BadName, BadKey, BadPassword and BigValue are the inputs the handlers'    *)
(* pattern, validation and size checks refuse.                               *)

Mk(op, pc, tok, name, pw, pw2, adm, key, val) ==
    [op |-> op, pc |-> pc, tok |-> tok, name |-> name, pw |-> pw, pw2 |-> pw2,
     adm |-> adm, key |-> key, val |-> val, user |-> NoUser, rec |-> NoRecord]

Idle == Mk("-", "idle", 0, <<>>, "nil", "nil", "nil", <<>>, "")

\* the cookie of a request: none (0) or a token issued earlier
Cookies == 0..Len(tokens)

Requests(op) ==
    CASE op = "Login" ->
           {Mk(op, "parse", t, n, pw, "nil", "nil", <<>>, "") :
               t \in Cookies, n \in Names, pw \in Passwords}
      [] op = "Logout" ->
           {Mk(op, "logout", t, <<>>, "nil", "nil", "nil", <<>>, "") : t \in Cookies}
      [] op = "UpdateAccount" ->
           {Mk(op, "parse", t, <<>>, pw, pw2, "nil", <<>>, "") :
               t \in Cookies, pw \in Passwords, pw2 \in Passwords \cup {BadPassword}}
      [] op = "CreateUser" ->
           {Mk(op, "parse", t, n, pw, "nil", adm, <<>>, "") :
               t \in Cookies, n \in Names \cup {BadName},
               pw \in Passwords \cup {BadPassword}, adm \in {"true", "false"}}
      [] op = "UpdateUser" ->
           {Mk(op, "parse", t, n, "nil", pw2, adm, <<>>, "") :
               t \in Cookies, n \in Names, pw2 \in Passwords \cup {BadPassword, "nil"},
               adm \in {"true", "false", "nil"}}
      [] op = "DeleteUser" ->
           {Mk(op, "parse", t, n, "nil", "nil", "nil", <<>>, "") :
               t \in Cookies, n \in Names}
      [] op = "GetUser" ->
           {Mk(op, "parse", t, <<>>, "nil", "nil", "nil", <<>>, "") : t \in Cookies}
      [] op = "Data" ->
           {Mk(op, "parse", t, <<>>, "nil", "nil", "nil", <<>>, "") : t \in Cookies}
      [] op = "DataByKey" ->
           {Mk(op, "parse", t, <<>>, "nil", "nil", "nil", k, "") :
               t \in Cookies, k \in Keys \cup {BadKey}}
      [] op = "SetData" ->
           {Mk(op, "parse", t, <<>>, "nil", "nil", "nil", k, v) :
               t \in Cookies, k \in Keys \cup {BadKey}, v \in Values \cup {BigValue}}
      [] op = "DeleteData" ->
           {Mk(op, "parse", t, <<>>, "nil", "nil", "nil", k, "") :
               t \in Cookies, k \in Keys \cup {BadKey}}

\* tokens that requests in flight may still issue
PendingLogins == Cardinality({p \in Procs : req[p].op = "Login"})

Start(p, ops, max) ==
    /\ req[p].pc = "idle"
    /\ nreq < max
    /\ \E op \in ops : \E r \in Requests(op) :
          /\ op = "Login" => Len(tokens) + PendingLogins < MaxTokens
          /\ req' = [req EXCEPT ![p] = r]
    /\ nreq' = nreq + 1
    /\ UNCHANGED <<store, tokens, now, last, items>>

NoBody == {}

Respond(p, status, body) ==
    /\ req' = [req EXCEPT ![p] = Idle]
    /\ last' = [op |-> req[p].op, tok |-> req[p].tok, status |-> status, body |-> body]

Goto(p, pc, user) ==
    /\ req' = [req EXCEPT ![p].pc = pc, ![p].user = user]
    /\ UNCHANGED last

PublicUser(user, token) == {[name |-> user.name, admin |-> user.admin, token |-> token]}

----------------------------------------------------------------------------
(* The handlers, from the return of authenticateUser to their first call   *)
(* into the storage engine                                                 *)

\* Login without the shortcut for a request that is already authenticated
LoginBegin_AlwaysCredentials(p, user) == Goto(p, "login", NoUser)

LoginBegin(p, user) ==
    IF ~user.nil THEN Respond(p, 200, PublicUser(user, 0))
    ELSE Goto(p, "login", NoUser)

UpdateAccountBegin(p, user) ==
    IF user.nil THEN Respond(p, 401, NoBody)
    ELSE Goto(p, "checkpw", user)

\* the admin flag is not looked at
isAsAdminAuthenticated_AnyUser(user) == ~user.nil

isAsAdminAuthenticated(user) == ~user.nil /\ user.admin

CreateUserBegin(p, user) ==
    IF ~isAsAdminAuthenticated(user) THEN Respond(p, 403, NoBody)
    ELSE IF ~AppUserPattern(req[p].name) THEN Respond(p, 400, NoBody)
    ELSE IF ~ValidPassword(req[p].pw) THEN Respond(p, 400, NoBody)
    ELSE Goto(p, "create", user)

\* UpdateUser without the check of the target against the requester
UpdateUserBegin_NoSelfCheck(p, user) ==
    IF user.nil \/ ~user.admin THEN Respond(p, 403, NoBody)
    ELSE IF req[p].pw2 # "nil" /\ ~ValidPassword(req[p].pw2) THEN Respond(p, 400, NoBody)
    ELSE Goto(p, "lookup", user)

UpdateUserBegin(p, user) ==
    IF user.nil \/ ~user.admin THEN Respond(p, 403, NoBody)
    ELSE IF req[p].name = user.name THEN Respond(p, 403, NoBody)
    ELSE IF req[p].pw2 # "nil" /\ ~ValidPassword(req[p].pw2) THEN Respond(p, 400, NoBody)
    ELSE Goto(p, "lookup", user)

DeleteUserBegin(p, user) ==
    IF ~isAsAdminAuthenticated(user) THEN Respond(p, 403, NoBody)
    ELSE Goto(p, "delete", user)

GetUserBegin(p, user) ==
    IF user.nil \/ ~user.admin THEN Respond(p, 403, NoBody)
    ELSE Goto(p, "list", user)

DataBegin(p, user) ==
    IF user.nil THEN Respond(p, 401, NoBody)
    ELSE Goto(p, "getall", user)

DataByKeyBegin(p, user) ==
    IF user.nil THEN Respond(p, 401, NoBody)
    ELSE IF ~AppKeyPattern(req[p].key) THEN Respond(p, 404, NoBody)
    ELSE Goto(p, "get", user)

SetDataBegin(p, user) ==
    IF user.nil THEN Respond(p, 401, NoBody)
    ELSE IF ~AppKeyPattern(req[p].key) THEN Respond(p, 400, NoBody)
    ELSE Goto(p, "count", user)

DeleteDataBegin(p, user) ==
    IF user.nil THEN Respond(p, 401, NoBody)
    ELSE Goto(p, "del", user)

Begin(p, user) ==
    CASE req[p].op = "Login" -> LoginBegin(p, user)
      [] req[p].op = "UpdateAccount" -> UpdateAccountBegin(p, user)
      [] req[p].op = "CreateUser" -> CreateUserBegin(p, user)
      [] req[p].op = "UpdateUser" -> UpdateUserBegin(p, user)
      [] req[p].op = "DeleteUser" -> DeleteUserBegin(p, user)
      [] req[p].op = "GetUser" -> GetUserBegin(p, user)
      [] req[p].op = "Data" -> DataBegin(p, user)
      [] req[p].op = "DataByKey" -> DataByKeyBegin(p, user)
      [] req[p].op = "SetData" -> SetDataBegin(p, user)
      [] req[p].op = "DeleteData" -> DeleteDataBegin(p, user)

----------------------------------------------------------------------------
(* authenticateUser: parse the cookie's token, then look the account up *)

\* the result of parsing the token is not looked at
authenticateUserParse_NoParseCheck(p) ==
    /\ req[p].pc = "parse"
    /\ IF req[p].tok = 0
       THEN Begin(p, NoUser)
       ELSE Goto(p, "getuser", NoUser)
    /\ UNCHANGED <<store, tokens, now, nreq, items>>

authenticateUserParse(p) ==
    /\ req[p].pc = "parse"
    /\ IF req[p].tok = 0 \/ ParseAuthToken(req[p].tok) # "nil"
       THEN Begin(p, NoUser)
       ELSE Goto(p, "getuser", NoUser)
    /\ UNCHANGED <<store, tokens, now, nreq, items>>

authenticateUserGet(p) ==
    /\ req[p].pc = "getuser"
    /\ Begin(p, GetUser(tokens[req[p].tok].user))
    /\ UNCHANGED <<store, tokens, now, nreq, items>>

----------------------------------------------------------------------------
(* Login, Logout *)

\* an unknown account is answered differently from a wrong password
Login_Distinguishes(p) ==
    /\ req[p].pc = "login"
    /\ LET user == AuthenticateUser(req[p].name, req[p].pw) IN
       IF user.nil
       THEN /\ Respond(p, IF GetUser(req[p].name).nil THEN 404 ELSE 401, NoBody)
            /\ UNCHANGED tokens
       ELSE /\ tokens' = Append(tokens, CreateAuthToken(user))
            /\ Respond(p, 200, PublicUser(user, Len(tokens) + 1))
    /\ UNCHANGED <<store, now, nreq, items>>

\* the account is looked up and the password is not verified
Login_NoPasswordCheck(p) ==
    /\ req[p].pc = "login"
    /\ LET user == GetUser(req[p].name) IN
       IF user.nil
       THEN /\ Respond(p, 401, NoBody)
            /\ UNCHANGED tokens
       ELSE /\ tokens' = Append(tokens, CreateAuthToken(user))
            /\ Respond(p, 200, PublicUser(user, Len(tokens) + 1))
    /\ UNCHANGED <<store, now, nreq, items>>

Login(p) ==
    /\ req[p].pc = "login"
    /\ LET user == AuthenticateUser(req[p].name, req[p].pw) IN
       IF user.nil
       THEN /\ Respond(p, 401, NoBody)
            /\ UNCHANGED tokens
       ELSE /\ tokens' = Append(tokens, CreateAuthToken(user))
            /\ Respond(p, 200, PublicUser(user, Len(tokens) + 1))
    /\ UNCHANGED <<store, now, nreq, items>>

LogoutParse(p) ==
    /\ req[p].pc = "logout"
    /\ IF req[p].tok = 0 THEN Respond(p, 401, NoBody)
       ELSE IF ParseAuthToken(req[p].tok) # "nil" THEN Respond(p, 401, NoBody)
       ELSE Goto(p, "revoke", NoUser)
    /\ UNCHANGED <<store, tokens, now, nreq, items>>

\* the marker is stored for a fixed time, not for the token's remaining validity
Logout_FixedTTL(p) ==
    /\ req[p].pc = "revoke"
    /\ store' = StoreInvalidatedToken(req[p].tok, 1)
    /\ Respond(p, 200, NoBody)
    /\ UNCHANGED <<tokens, now, nreq, items>>

\* the marker is stored for a whole session time-to-live
Logout_FullTTL(p) ==
    /\ req[p].pc = "revoke"
    /\ store' = StoreInvalidatedToken(req[p].tok, SessionTTL)
    /\ Respond(p, 200, NoBody)
    /\ UNCHANGED <<tokens, now, nreq, items>>

\* the logout also drops the DataItems of the account
Logout_DropsData(p) ==
    /\ req[p].pc = "revoke"
    /\ store' = DelAll(StoreInvalidatedToken(req[p].tok, tokens[req[p].tok].exp - now),
                       Scan(store, dataPrefix(tokens[req[p].tok].user)))
    /\ Respond(p, 200, NoBody)
    /\ UNCHANGED <<tokens, now, nreq, items>>

Logout(p) ==
    /\ req[p].pc = "revoke"
    /\ store' = StoreInvalidatedToken(req[p].tok, tokens[req[p].tok].exp - now)
    /\ Respond(p, 200, NoBody)
    /\ UNCHANGED <<tokens, now, nreq, items>>

----------------------------------------------------------------------------
(* UpdateAccount: change one's own password *)

\* the current password is not verified
UpdateAccountCheck_NoCurrentPassword(p) ==
    /\ req[p].pc = "checkpw"
    /\ IF ~ValidPassword(req[p].pw2) THEN Respond(p, 400, NoBody)
       ELSE Goto(p, "update", req[p].user)
    /\ UNCHANGED <<store, tokens, now, nreq, items>>

UpdateAccountCheck(p) ==
    /\ req[p].pc = "checkpw"
    /\ IF AuthenticateUser(req[p].user.name, req[p].pw).nil
       THEN Respond(p, 401, NoBody)
       ELSE IF ~ValidPassword(req[p].pw2) THEN Respond(p, 400, NoBody)
       ELSE Goto(p, "update", req[p].user)
    /\ UNCHANGED <<store, tokens, now, nreq, items>>

UpdateAccountRead(p) ==
    /\ req[p].pc = "update"
    /\ IF UpdateUserErr(req[p].user.name) # "nil"
       THEN Respond(p, 400, NoBody)
       ELSE /\ req' = [req EXCEPT ![p].pc = "updatewrite",
                                  ![p].rec = ReadUserRecord(req[p].user.name)]
            /\ UNCHANGED last
    /\ UNCHANGED <<store, tokens, now, nreq, items>>

\* UpdateAccount passing Admin: false instead of nil
UpdateAccount_ClearsAdmin(p) ==
    /\ req[p].pc = "updatewrite"
    /\ store' = UpdateUserStore(req[p].user.name, req[p].rec, "false", req[p].pw2)
    /\ Respond(p, 200, NoBody)
    /\ UNCHANGED <<tokens, now, nreq, items>>

UpdateAccount(p) ==
    /\ req[p].pc = "updatewrite"
    /\ store' = UpdateUserStore(req[p].user.name, req[p].rec, "nil", req[p].pw2)
    /\ Respond(p, 200, NoBody)
    /\ UNCHANGED <<tokens, now, nreq, items>>

----------------------------------------------------------------------------
(* CreateUser, UpdateUser, DeleteUser, GetUser *)

\* the conflict is not told apart from success
CreateUserStatus_NoConflict(err) ==
    IF err # "nil" /\ err # "ErrUserAlreadyExists" THEN 500
    ELSE 201

CreateUserStatus(err) ==
    IF err = "ErrUserAlreadyExists" THEN 409
    ELSE IF err # "nil" THEN 500
    ELSE 201

CreateUser(p) ==
    /\ req[p].pc = "create"
    /\ store' = CreateUserStore(req[p].name, req[p].pw, req[p].adm = "true")
    /\ Respond(p, CreateUserStatus(CreateUserErr(req[p].name)), NoBody)
    /\ UNCHANGED <<tokens, now, nreq, items>>

UpdateUserLookup(p) ==
    /\ req[p].pc = "lookup"
    /\ IF GetUser(req[p].name).nil
       THEN Respond(p, 500, NoBody)
       ELSE Goto(p, "adminupdate", req[p].user)
    /\ UNCHANGED <<store, tokens, now, nreq, items>>

\* the error of core.UpdateUser is not looked at
UpdateUserRead_IgnoresError(p) ==
    /\ req[p].pc = "adminupdate"
    /\ req' = [req EXCEPT ![p].pc = "adminwrite",
                          ![p].rec = IF UpdateUserErr(req[p].name) # "nil" THEN NoRecord
                                     ELSE ReadUserRecord(req[p].name)]
    /\ UNCHANGED <<last, store, tokens, now, nreq, items>>

UpdateUserRead(p) ==
    /\ req[p].pc = "adminupdate"
    /\ IF UpdateUserErr(req[p].name) # "nil"
       THEN Respond(p, 400, NoBody)
       ELSE /\ req' = [req EXCEPT ![p].pc = "adminwrite",
                                  ![p].rec = ReadUserRecord(req[p].name)]
            /\ UNCHANGED last
    /\ UNCHANGED <<store, tokens, now, nreq, items>>

UpdateUser(p) ==
    /\ req[p].pc = "adminwrite"
    /\ store' = UpdateUserStore(req[p].name, req[p].rec, req[p].adm, req[p].pw2)
    /\ Respond(p, 200, NoBody)
    /\ UNCHANGED <<tokens, now, nreq, items>>

DeleteUser(p) ==
    /\ req[p].pc = "delete"
    /\ store' = DeleteUserAccount(req[p].name)
    /\ Goto(p, "cascade", req[p].user)
    /\ UNCHANGED <<tokens, now, nreq, items>>

DeleteUserCascade(p) ==
    /\ req[p].pc = "cascade"
    /\ store' = DeleteUserData(req[p].name)
    /\ items' = ItemsDeleteAll(req[p].name)
    /\ Respond(p, 200, NoBody)
    /\ UNCHANGED <<tokens, now, nreq>>

GetUserList(p) ==
    /\ req[p].pc = "list"
    /\ Respond(p, 200, GetUsers(req[p].user.name))
    /\ UNCHANGED <<store, tokens, now, nreq, items>>

----------------------------------------------------------------------------
(* Data, DataByKey, SetData, DeleteData *)

Data(p) ==
    /\ req[p].pc = "getall"
    /\ Respond(p, 200, GetAllDataFromUser(req[p].user.name))
    /\ UNCHANGED <<store, tokens, now, nreq, items>>

DataByKey(p) ==
    /\ req[p].pc = "get"
    /\ IF ~HasData(req[p].user.name, req[p].key)
       THEN Respond(p, 204, NoBody)
       ELSE Respond(p, 200, {GetDataFromUser(req[p].user.name, req[p].key)})
    /\ UNCHANGED <<store, tokens, now, nreq, items>>

\* SetData without the count check
SetDataCount_NoQuota(p) ==
    /\ req[p].pc = "count"
    /\ IF getContentLength(req[p].val) > AppDataMaxSize
       THEN Respond(p, 413, NoBody)
       ELSE Goto(p, "set", req[p].user)
    /\ UNCHANGED <<store, tokens, now, nreq, items>>

SetDataCount(p) ==
    /\ req[p].pc = "count"
    /\ IF GetDataCountForUser(req[p].user.name, req[p].key) > AppKeysPerUser
       THEN Respond(p, 403, NoBody)
       ELSE IF getContentLength(req[p].val) > AppDataMaxSize
       THEN Respond(p, 413, NoBody)
       ELSE Goto(p, "set", req[p].user)
    /\ UNCHANGED <<store, tokens, now, nreq, items>>

\* SetData with owner and key passed in the wrong order
SetData_Swapped(p) ==
    /\ req[p].pc = "set"
    /\ store' = SetDataForUser(req[p].key, req[p].user.name, req[p].val)
    /\ items' = ItemsSet(tokens[req[p].tok].user, req[p].key, req[p].val)
    /\ Respond(p, 200, NoBody)
    /\ UNCHANGED <<tokens, now, nreq>>

\* SetData storing the item without its owner
SetData_NoOwner(p) ==
    /\ req[p].pc = "set"
    /\ store' = SetDataForUser(<<>>, req[p].key, req[p].val)
    /\ items' = ItemsSet(tokens[req[p].tok].user, req[p].key, req[p].val)
    /\ Respond(p, 200, NoBody)
    /\ UNCHANGED <<tokens, now, nreq>>

SetData(p) ==
    /\ req[p].pc = "set"
    /\ store' = SetDataForUser(req[p].user.name, req[p].key, req[p].val)
    /\ items' = ItemsSet(tokens[req[p].tok].user, req[p].key, req[p].val)
    /\ Respond(p, 200, NoBody)
    /\ UNCHANGED <<tokens, now, nreq>>

\* DeleteData with owner and key passed in the wrong order
DeleteData_Swapped(p) ==
    /\ req[p].pc = "del"
    /\ store' = DeleteDataFromUser(req[p].key, req[p].user.name)
    /\ items' = ItemsDelete(tokens[req[p].tok].user, req[p].key)
    /\ Respond(p, 200, NoBody)
    /\ UNCHANGED <<tokens, now, nreq>>

\* DeleteData reporting a missing key as a failure
DeleteData_NotFound(p) ==
    /\ req[p].pc = "del"
    /\ store' = DeleteDataFromUser(req[p].user.name, req[p].key)
    /\ items' = ItemsDelete(tokens[req[p].tok].user, req[p].key)
    /\ Respond(p, IF HasData(req[p].user.name, req[p].key) THEN 200 ELSE 500, NoBody)
    /\ UNCHANGED <<tokens, now, nreq>>

DeleteData(p) ==
    /\ req[p].pc = "del"
    /\ store' = DeleteDataFromUser(req[p].user.name, req[p].key)
    /\ items' = ItemsDelete(tokens[req[p].tok].user, req[p].key)
    /\ Respond(p, 200, NoBody)
    /\ UNCHANGED <<tokens, now, nreq>>

----------------------------------------------------------------------------
(* Time: the clock advances and the engine drops entries past their TTL *)

Tick ==
    /\ now < MaxTime
    /\ now' = now + 1
    /\ store' = Expire(store, now + 1)
    /\ UNCHANGED <<tokens, req, last, nreq, items>>

----------------------------------------------------------------------------
(* Specifications *)

RootAccount == [password |-> Hash("pw1"), admin |-> TRUE]
AbAccount == [password |-> Hash("pw2"), admin |-> FALSE]

NoResponse == [op |-> "-", tok |-> 0, status |-> 0, body |-> NoBody]

\* after bootstrap: the configured administrator exists, nobody is logged in
Init ==
    /\ store = Put(<<>>, userKey(Root), RootAccount, 0)
    /\ tokens = <<>>
    /\ now = 0
    /\ req = [p \in Procs |-> Idle]
    /\ last = NoResponse
    /\ nreq = 0
    /\ items = {}

AccountOps == {"Login", "CreateUser", "UpdateUser", "DeleteUser", "GetUser", "UpdateAccount"}

StartAccount(p) == Start(p, AccountOps, MaxAccountReqs)

NextAccounts ==
    \E p \in Procs :
        \/ StartAccount(p)
        \/ authenticateUserParse(p)
        \/ authenticateUserGet(p)
        \/ Login(p)
        \/ UpdateAccountCheck(p)
        \/ UpdateAccountRead(p)
        \/ UpdateAccount(p)
        \/ CreateUser(p)
        \/ UpdateUserLookup(p)
        \/ UpdateUserRead(p)
        \/ UpdateUser(p)
        \/ DeleteUser(p)
        \/ DeleteUserCascade(p)
        \/ GetUserList(p)

SpecAccounts == Init /\ [][NextAccounts]_vars

TokenOps == {"Login", "Logout", "Data"}

StartToken(p) == Start(p, TokenOps, MaxTokenReqs)

NextTokens ==
    \/ Tick
    \/ \E p \in Procs :
        \/ StartToken(p)
        \/ authenticateUserParse(p)
        \/ authenticateUserGet(p)
        \/ Login(p)
        \/ LogoutParse(p)
        \/ Logout(p)
        \/ Data(p)

SpecTokens == Init /\ [][NextTokens]_vars

\* both accounts exist, each holds a session, and Root has stored one item
InitData ==
    /\ store = Put(Put(Put(<<>>, userKey(Root), RootAccount, 0), userKey(Ab), AbAccount, 0),
                   dataKey(Root, K1), "1", 0)
    /\ tokens = <<[user |-> Root, exp |-> SessionTTL], [user |-> Ab, exp |-> SessionTTL]>>
    /\ now = 0
    /\ req = [p \in Procs |-> Idle]
    /\ last = NoResponse
    /\ nreq = 0
    /\ items = {<<Root, K1, "1">>}

DataOps == {"Data", "DataByKey", "SetData", "DeleteData"}

StartData(p) == Start(p, DataOps, MaxDataReqs)

NextData ==
    \E p \in Procs :
        \/ StartData(p)
        \/ authenticateUserParse(p)
        \/ authenticateUserGet(p)
        \/ Data(p)
        \/ DataByKey(p)
        \/ SetDataCount(p)
        \/ SetData(p)
        \/ DeleteData(p)

SpecData == InitData /\ [][NextData]_vars

\* both accounts exist, each holds a session, and nothing is stored yet
InitQuota ==
    /\ store = Put(Put(<<>>, userKey(Root), RootAccount, 0), userKey(Ab), AbAccount, 0)
    /\ tokens = <<[user |-> Root, exp |-> SessionTTL], [user |-> Ab, exp |-> SessionTTL]>>
    /\ now = 0
    /\ req = [p \in Procs |-> Idle]
    /\ last = NoResponse
    /\ nreq = 0
    /\ items = {}

QuotaOps == {"SetData", "DeleteData"}

\* one request at a time: a request starts when no other is in flight
StartQuota(p) ==
    /\ \A q \in Procs : req[q].pc = "idle"
    /\ Start(p, QuotaOps, MaxQuotaReqs)

NextQuota ==
    \E p \in Procs :
        \/ StartQuota(p)
        \/ authenticateUserParse(p)
        \/ authenticateUserGet(p)
        \/ SetDataCount(p)
        \/ SetData(p)
        \/ DeleteData(p)

SpecQuota == InitQuota /\ [][NextQuota]_vars

LifecycleOps == {"DeleteUser", "CreateUser", "SetData", "Data"}

StartLifecycle(p) == Start(p, LifecycleOps, MaxLifecycleReqs)

\* accounts are deleted and created again while their sessions store and read data
NextLifecycle ==
    \E p \in Procs :
        \/ StartLifecycle(p)
        \/ authenticateUserParse(p)
        \/ authenticateUserGet(p)
        \/ DeleteUser(p)
        \/ DeleteUserCascade(p)
        \/ CreateUser(p)
        \/ SetDataCount(p)
        \/ SetData(p)
        \/ Data(p)

SpecLifecycle == InitQuota /\ [][NextLifecycle]_vars

UpdateOps == {"UpdateUser", "UpdateAccount", "DeleteUser"}

StartUpdate(p) == Start(p, UpdateOps, MaxUpdateReqs)

\* the accounts are updated by the admin and by themselves, and deleted
NextUpdates ==
    \E p \in Procs :
        \/ StartUpdate(p)
        \/ authenticateUserParse(p)
        \/ authenticateUserGet(p)
        \/ UpdateAccountCheck(p)
        \/ UpdateAccountRead(p)
        \/ UpdateAccount(p)
        \/ UpdateUserLookup(p)
        \/ UpdateUserRead(p)
        \/ UpdateUser(p)
        \/ DeleteUser(p)
        \/ DeleteUserCascade(p)

SpecUpdates == InitQuota /\ [][NextUpdates]_vars

LogoutOps == {"Logout", "Data"}

StartLogout(p) == Start(p, LogoutOps, MaxLogoutReqs)

\* the sessions of two accounts log out and read data while the clock runs
NextLogout ==
    \/ Tick
    \/ \E p \in Procs :
        \/ StartLogout(p)
        \/ authenticateUserParse(p)
        \/ authenticateUserGet(p)
        \/ LogoutParse(p)
        \/ Logout(p)
        \/ Data(p)

SpecLogout == InitData /\ [][NextLogout]_vars

----------------------------------------------------------------------------
(* Properties *)

\* process p writes its response in this step
Finished(p) == req[p].pc # "idle" /\ req'[p].pc = "idle"

\* the account the token of p's request was issued to
TokenUser(p) == tokens[req[p].tok].user

DataKeysOf(s, owner) ==
    {k \in DOMAIN s : k[1] = "d" /\ ~decodeDataKey(k).err /\ decodeDataKey(k).owner = owner}

\* the accounts of a store
Registry(s) == [k \in {x \in DOMAIN s : x[1] = "u"} |-> s[k]]

HasUser(s, name) == Has(s, userKey(name))

AdminOps == {"CreateUser", "UpdateUser", "DeleteUser", "GetUser"}

\* C1: of any number of create-account requests for one name, in any
\* interleaving, the one that finds the name absent succeeds and writes its
\* record; every other one fails AlreadyExists and changes nothing; no two
\* accounts ever carry the same name.
C1_CreateUnique ==
    [][/\ \A p \in Procs, n \in Names :
            (Finished(p) /\ req[p].pc = "create" /\ req[p].name = n) =>
                \/ /\ ~HasUser(store, n)
                   /\ last' = [op |-> "CreateUser", tok |-> req[p].tok, status |-> 201, body |-> NoBody]
                   /\ store' = Put(store, userKey(n),
                                   [password |-> Hash(req[p].pw), admin |-> req[p].adm = "true"], 0)
                \/ /\ HasUser(store, n)
                   /\ last' = [op |-> "CreateUser", tok |-> req[p].tok, status |-> 409, body |-> NoBody]
                   /\ store' = store
       /\ Cardinality(DOMAIN Registry(store'))
            = Cardinality({n \in Names \cup {BadName} : HasUser(store', n)})
      ]_vars

\* two create requests for "ab" were in flight together; the first has
\* succeeded, the second is about to run against the record of the first
C1_Witness ==
    /\ last.op = "CreateUser" /\ last.status = 201
    /\ HasUser(store, Ab)
    /\ \E p \in Procs :
          /\ req[p].op = "CreateUser" /\ req[p].pc = "create" /\ req[p].name = Ab
          /\ store[userKey(Ab)].v # [password |-> Hash(req[p].pw), admin |-> req[p].adm = "true"]
    /\ nreq = 3

\* C5: create, update, delete and list accounts take effect only for a
\* request whose token parses and whose account is stored with admin = true
\* when the request looks it up; any other such request is answered
\* Forbidden and changes nothing, also with the unexpired token of an admin
\* demoted or deleted before; the registry changes in no other way than by
\* these requests and an account's own password change.
C5_AdminOnly ==
    [][/\ \A p \in Procs :
            /\ (req[p].op \in AdminOps /\ req[p].pc = "parse" /\ req'[p] # req[p]
                    /\ (req[p].tok = 0 \/ ParseAuthToken(req[p].tok) # "nil")) =>
                  /\ last' = [op |-> req[p].op, tok |-> req[p].tok, status |-> 403, body |-> NoBody]
                  /\ Finished(p)
                  /\ store' = store
            /\ (req[p].op \in AdminOps /\ req[p].pc = "getuser" /\ req'[p] # req[p]) =>
                  /\ store' = store
                  /\ IF ~HasUser(store, TokenUser(p)) \/ ~store[userKey(TokenUser(p))].v.admin
                     THEN /\ Finished(p)
                          /\ last' = [op |-> req[p].op, tok |-> req[p].tok, status |-> 403, body |-> NoBody]
                     ELSE \/ /\ Finished(p)
                             /\ last'.status \in {400, 403}
                          \/ /\ req'[p].pc \in {"create", "lookup", "delete", "list"}
                             /\ req'[p].user = [nil |-> FALSE, name |-> TokenUser(p), admin |-> TRUE]
            /\ (req[p].pc = "list" /\ Finished(p)) =>
                  /\ req[p].user.admin
                  /\ last'.body = {[name |-> n, admin |-> store[userKey(n)].v.admin] :
                                      n \in {m \in Names : HasUser(store, m) /\ m # req[p].user.name}}
       /\ Registry(store') # Registry(store) =>
            \E p \in Procs :
                /\ req'[p] # req[p]
                /\ \/ req[p].pc \in {"create", "adminwrite", "delete"} /\ req[p].user.admin
                   \/ req[p].pc = "updatewrite"
      ]_vars

\* Root has deleted its own account, and a create request with Root's
\* unexpired token has been answered Forbidden; nothing was created
C5_Witness ==
    /\ last = [op |-> "CreateUser", tok |-> 1, status |-> 403, body |-> NoBody]
    /\ Len(tokens) >= 1 /\ tokens[1].user = Root /\ now < tokens[1].exp
    /\ ParseAuthToken(1) = "nil"
    /\ ~HasUser(store, Root)
    /\ ~HasUser(store, Ab)

\* C6: a login without a valid token that names an unknown account and one
\* that names an existing account with a wrong password get the same answer
\* (InvalidCredentials, no body, no token) and change nothing.
C6_SameFailure ==
    [][\A p \in Procs, n \in Names, pw \in Passwords :
        (Finished(p) /\ req[p].pc = "login" /\ req[p].name = n /\ req[p].pw = pw
            /\ (~HasUser(store, n) \/ store[userKey(n)].v.password # Hash(pw))) =>
              /\ last' = [op |-> "Login", tok |-> req[p].tok, status |-> 401, body |-> NoBody]
              /\ tokens' = tokens
              /\ store' = store
      ]_vars

\* a login has failed, and two more are about to fail: one names the unknown
\* account "ab", the other gives a wrong password for Root
C6_Witness ==
    /\ last.op = "Login" /\ last.status = 401
    /\ ~HasUser(store, Ab)
    /\ req[1].pc = "login" /\ req[1].name = Ab
    /\ req[2].pc = "login" /\ req[2].name = Root /\ req[2].pw = "pw2"
    /\ store[userKey(Root)].v.password = Hash("pw1")

\* a step of an update or a delete of account n
ChangesAccount(n) ==
    \E p \in Procs :
        /\ req'[p] # req[p]
        /\ \/ req[p].pc \in {"adminwrite", "delete"} /\ req[p].name = n
           \/ req[p].pc = "updatewrite" /\ req[p].user.name = n

\* C7: after create(name, password, admin) has succeeded, get(name) gives
\* that name and admin flag, a login with that password succeeds and a login
\* with any other password fails InvalidCredentials, until the account is
\* updated or deleted.
C7_CreateThenAuthenticate ==
    [][\A n \in Names, pw \in Passwords :
        /\ \A p \in Procs :
            /\ (Finished(p) /\ req[p].pc = "create" /\ req[p].name = n /\ req[p].pw = pw
                    /\ last'.status = 201) =>
                  /\ GetUser(n)' = [nil |-> FALSE, name |-> n, admin |-> req[p].adm = "true"]
                  /\ AuthenticateUser(n, pw)' = GetUser(n)'
                  /\ \A other \in Passwords \ {pw} : AuthenticateUser(n, other)'.nil
            /\ (Finished(p) /\ req[p].pc = "login" /\ req[p].name = n /\ req[p].pw = pw) =>
                  IF HasUser(store, n) /\ store[userKey(n)].v.password = Hash(pw)
                  THEN /\ last' = [op |-> "Login", tok |-> req[p].tok, status |-> 200,
                                   body |-> {[name |-> n, admin |-> store[userKey(n)].v.admin,
                                              token |-> Len(tokens')]}]
                       /\ tokens' = Append(tokens, [user |-> n, exp |-> now + SessionTTL])
                  ELSE last'.status = 401 /\ tokens' = tokens
        /\ (HasUser(store, n) /\ ~ChangesAccount(n)) =>
              /\ HasUser(store', n)
              /\ store'[userKey(n)] = store[userKey(n)]
      ]_vars

\* "ab" was created as an admin with password pw1 and has logged in with it
C7_Witness ==
    /\ last.op = "Login" /\ last.status = 200
    /\ last.body = {[name |-> Ab, admin |-> TRUE, token |-> 2]}
    /\ HasUser(store, Ab)
    /\ store[userKey(Ab)].v = [password |-> Hash("pw1"), admin |-> TRUE]
    /\ nreq = 3

Revoked(s, t) == Has(s, revokedKey(t))

\* C2: once logout of a token has returned success, every later parse of it
\* fails, Revoked while now < expiresAt and Expired from expiresAt on, and no
\* request whose token is parsed from then on is authenticated, under any
\* interleaving with other requests and with the clock.
C2_RevokedForever ==
    [][\A t \in 1..Len(tokens) :
        /\ \A p \in Procs :
            /\ (Finished(p) /\ req[p].pc = "revoke" /\ req[p].tok = t) =>
                  /\ last' = [op |-> "Logout", tok |-> t, status |-> 200, body |-> NoBody]
                  /\ ParseAuthToken(t)' \in {"Revoked", "Expired"}
            /\ (req[p].pc = "parse" /\ req[p].tok = t /\ req'[p] # req[p]
                    /\ ParseAuthToken(t) \in {"Revoked", "Expired"}) =>
                  /\ req'[p].pc # "getuser"
                  /\ req'[p].user.nil
                  /\ Finished(p) => last'.status = 401
        /\ ParseAuthToken(t) \in {"Revoked", "Expired"} =>
              ParseAuthToken(t)' = IF now' < tokens[t].exp THEN "Revoked" ELSE "Expired"
      ]_vars

\* token 1 was logged out; before it expired, a data request presenting it
\* has been answered Unauthorized
C2_Witness ==
    /\ last = [op |-> "Data", tok |-> 1, status |-> 401, body |-> NoBody]
    /\ Len(tokens) >= 1 /\ now < tokens[1].exp
    /\ Revoked(store, 1)
    /\ HasUser(store, tokens[1].user)

\* C8: a token issued by a login carries the account's name and
\* expiresAt = issue time + sessionTTL and parses at once; a request's parse
\* of it succeeds exactly while now < expiresAt and its id is not revoked,
\* fails Expired from now = expiresAt on and Revoked when unexpired and
\* revoked; a token that has failed for either reason never parses again.
C8_TokenLifecycle ==
    [][/\ \A p \in Procs, n \in Names :
            (Finished(p) /\ req[p].pc = "login" /\ req[p].name = n /\ last'.status = 200) =>
                /\ tokens' = Append(tokens, [user |-> n, exp |-> now + SessionTTL])
                /\ last'.body = {[name |-> n, admin |-> store[userKey(n)].v.admin,
                                  token |-> Len(tokens) + 1]}
                /\ \A t \in {Len(tokens) + 1} : ParseAuthToken(t)' = "nil"
       /\ \A t \in 1..Len(tokens) :
            /\ tokens'[t] = tokens[t]
            /\ \A p \in Procs :
                (req[p].pc = "parse" /\ req[p].tok = t /\ req'[p] # req[p]
                        /\ req[p].op = "Data") =>
                    IF now < tokens[t].exp /\ ~Revoked(store, t)
                    THEN req'[p].pc = "getuser"
                    ELSE Finished(p) /\ last'.status = 401
            /\ ParseAuthToken(t)' =
                  (IF now' >= tokens[t].exp THEN "Expired"
                   ELSE IF Revoked(store', t) THEN "Revoked"
                   ELSE "nil")
            /\ ParseAuthToken(t) # "nil" => ParseAuthToken(t)' # "nil"
      ]_vars

\* at exactly now = expiresAt a data request presenting the token, never
\* revoked, has been answered Unauthorized
C8_Witness ==
    /\ last = [op |-> "Data", tok |-> 1, status |-> 401, body |-> NoBody]
    /\ Len(tokens) >= 1 /\ now = tokens[1].exp
    /\ ~Revoked(store, 1)
    /\ ParseAuthToken(1) = "Expired"
    /\ nreq = 2

\* set-data requests of one owner between their count check and their write
Writers(owner) == {p \in Procs : req[p].pc = "set" /\ TokenUser(p) = owner}

C4_Isolation ==
    [][/\ (store' # store \/ items' # items) =>
            \A o \in Names :
                /\ GetAllDataFromUser(o)' = ItemsOf(o)'
                /\ Scan(store', dataPrefix(o)) = DataKeysOf(store', o)
       /\ \A p \in Procs :
            (Finished(p) /\ req[p].pc \in {"getall", "get", "set", "del"}) =>
                /\ req[p].pc = "getall" =>
                      last' = [op |-> "Data", tok |-> req[p].tok, status |-> 200, body |-> ItemsOf(TokenUser(p))]
                /\ \A o \in Names \ {TokenUser(p)} : ItemsOf(o)' = ItemsOf(o)
                /\ \A k \in (DOMAIN store \cup DOMAIN store') \ DataKeysOf(store', TokenUser(p)) :
                      /\ k \notin DataKeysOf(store, TokenUser(p))
                            => (k \in DOMAIN store /\ k \in DOMAIN store' /\ store'[k] = store[k])
      ]_vars

\* Root owns key "bk" and "ab" owns key "k"; a get-all of Root has returned
\* Root's items and not those of "ab"
C4_Witness ==
    /\ last.op = "Data" /\ last.status = 200 /\ last.tok = 1
    /\ \E v \in Values : <<Root, K2, v>> \in items
    /\ \E v \in Values : <<Ab, K1, v>> \in items
    /\ last.body = ItemsOf(Root)
    /\ last.body # ItemsOf(Ab)

\* p finishes, in this step, the storage call pc of a request on (o, k)
DataStep(p, pc, o, k) ==
    /\ Finished(p)
    /\ req[p].pc = pc
    /\ TokenUser(p) = o
    /\ req[p].key = k

C10_DeleteIdempotent ==
    [][\A o \in Names, k \in Keys \cup {BadKey} :
        /\ \A p \in Procs :
            /\ DataStep(p, "del", o, k) =>
                  /\ last' = [op |-> "DeleteData", tok |-> req[p].tok, status |-> 200, body |-> NoBody]
                  /\ ~HasData(o, k)'
                  /\ ~HasData(o, k) => store' = store
            /\ (DataStep(p, "get", o, k) /\ ~(\E v \in Values : <<o, k, v>> \in items)) =>
                  last' = [op |-> "DataByKey", tok |-> req[p].tok, status |-> 204, body |-> NoBody]
        /\ (~(\E v \in Values : <<o, k, v>> \in items) /\ HasData(o, k)') =>
              \E p \in Procs : req[p].pc = "set" /\ TokenUser(p) = o /\ req[p].key = k
      ]_vars

\* a delete has succeeded and a second delete of the same, now absent, key
\* of the same owner is about to run
C10_Witness ==
    /\ last = [op |-> "DeleteData", tok |-> 1, status |-> 200, body |-> NoBody]
    /\ \E p \in Procs :
          /\ req[p].pc = "del"
          /\ TokenUser(p) = Root /\ req[p].key = K1
          /\ ~HasData(Root, K1)
          /\ items = {}

\* the distinct keys of an owner that were set and not deleted since
KeysOf(owner) == {i[1] : i \in ItemsOf(owner)}

\* C11: with requests one at a time, a set-data call with a new key is
\* let through by the count check while the owner has fewer than quota keys,
\* and is rejected QuotaExceeded, storing nothing, once the owner has quota
\* keys; so the owner never has more than quota keys.
C11_QuotaExact ==
    [][\A p \in Procs, o \in Names, k \in Keys :
        (req[p].pc = "count" /\ req'[p] # req[p] /\ TokenUser(p) = o /\ req[p].key = k
                /\ k \notin KeysOf(o)) =>
            IF Cardinality(KeysOf(o)) >= AppKeysPerUser
            THEN /\ Finished(p)
                 /\ last' = [op |-> "SetData", tok |-> req[p].tok, status |-> 403, body |-> NoBody]
                 /\ store' = store
            ELSE getContentLength(req[p].val) <= AppDataMaxSize => req'[p].pc = "set"
      ]_vars

\* C12: in every reachable state and for every owner, count equals the
\* number of entries get-all returns, and both equal the number of distinct
\* keys of the owner that were set and not deleted since.
C12_CountIsGetAll ==
    \A o \in Names :
        /\ GetDataCountForUser(o, K1) = Cardinality(GetAllDataFromUser(o))
        /\ GetDataCountForUser(o, K1) = Cardinality(KeysOf(o))
        /\ {e[1] : e \in GetAllDataFromUser(o)} = KeysOf(o)

\* Root has set "bk" and then deleted "k": one key is left and counted
C12_Witness ==
    /\ last = [op |-> "DeleteData", tok |-> 1, status |-> 200, body |-> NoBody]
    /\ KeysOf(Root) = {K2}
    /\ GetDataCountForUser(Root, K1) = 1
    /\ Cardinality(GetAllDataFromUser(Root)) = 1

\* a delete-account request for name x is in flight
Deleting(x) ==
    \E p \in Procs : req[p].op = "DeleteUser" /\ req[p].pc # "idle" /\ req[p].name = x

\* C13: whenever no account named x exists and no delete of x is in
\* progress, the store holds no DataItem owned by x, also when data requests
\* authenticated as x are in flight while x is deleted.
C13_NoOrphans ==
    \A x \in Names :
        (~HasUser(store, x) /\ ~Deleting(x)) => GetDataCountForUser(x, K1) = 0

\* p puts the modified record of account n back in this step
UpdateWrite(p, n) ==
    /\ req'[p] # req[p]
    /\ \/ req[p].pc = "adminwrite" /\ req[p].name = n
       \/ req[p].pc = "updatewrite" /\ req[p].user.name = n

\* every account but n is as it was
OthersUnchanged(n) ==
    \A m \in Names \ {n} :
        /\ HasUser(store', m) = HasUser(store, m)
        /\ HasUser(store, m) => store'[userKey(m)] = store[userKey(m)]

UpdateRead(p, n) ==
    /\ req'[p] # req[p]
    /\ \/ req[p].pc = "adminupdate" /\ req[p].name = n
       \/ req[p].pc = "update" /\ req[p].user.name = n

OwnPasswordStep(p, pc, n, pw, pw2) ==
    /\ req[p].op = "UpdateAccount"
    /\ req[p].pc = pc
    /\ req'[p] # req[p]
    /\ req[p].tok # 0
    /\ TokenUser(p) = n
    /\ req[p].pw = pw
    /\ req[p].pw2 = pw2

\* C16, as claimed: after a successful change of one's own password,
\* authenticate with the new password succeeds and authenticate with the old
\* (the supplied current) password fails InvalidCredentials.
C16_OldPasswordFails ==
    [][\A p \in Procs, n \in Names, pw \in Passwords, pw2 \in Passwords :
        OwnPasswordStep(p, "updatewrite", n, pw, pw2) =>
            /\ last' = [op |-> "UpdateAccount", tok |-> req[p].tok, status |-> 200, body |-> NoBody]
            /\ ~AuthenticateUser(n, pw2)'.nil
            /\ AuthenticateUser(n, pw)'.nil
      ]_vars

\* C16, amended: update own password writes only for a request whose token
\* authenticates as the account and whose current password verifies against
\* the stored digest when the handler checks it; a request answered 401
\* changes nothing; after the write, authenticate with the new password
\* succeeds and with every other password fails (the old password too, unless
\* the new password is the same).
C16_OwnPassword ==
    [][/\ \A p \in Procs :
            (req[p].op = "UpdateAccount" /\ req'[p] # req[p]) =>
                /\ req[p].pc # "updatewrite" => store' = store
                /\ (Finished(p) /\ last'.status = 401) => store' = store
                /\ (req[p].pc = "parse" /\ req[p].tok = 0) => Finished(p) /\ last'.status = 401
       /\ \A p \in Procs, n \in Names, pw \in Passwords, pw2 \in Passwords \cup {BadPassword} :
            /\ OwnPasswordStep(p, "getuser", n, pw, pw2) =>
                  IF HasUser(store, n)
                  THEN req'[p].pc = "checkpw" /\ req'[p].user.name = n
                  ELSE Finished(p) /\ last'.status = 401
            /\ OwnPasswordStep(p, "checkpw", n, pw, pw2) =>
                  IF HasUser(store, n) /\ store[userKey(n)].v.password = Hash(pw)
                  THEN IF pw2 = BadPassword THEN Finished(p) /\ last'.status = 400
                       ELSE req'[p].pc = "update"
                  ELSE Finished(p) /\ last'.status = 401
            /\ OwnPasswordStep(p, "updatewrite", n, pw, pw2) =>
                  /\ last' = [op |-> "UpdateAccount", tok |-> req[p].tok, status |-> 200, body |-> NoBody]
                  /\ req[p].user.name = n
                  /\ ~AuthenticateUser(n, pw2)'.nil
                  /\ \A other \in Passwords \ {pw2} : AuthenticateUser(n, other)'.nil
                  /\ OthersUnchanged(n)
      ]_vars

\* "ab" has changed its password from pw2 to pw1: pw1 authenticates, pw2
\* does not
C16_Witness ==
    /\ last = [op |-> "UpdateAccount", tok |-> 2, status |-> 200, body |-> NoBody]
    /\ HasUser(store, Ab)
    /\ store[userKey(Ab)].v.password = Hash("pw1")
    /\ ~AuthenticateUser(Ab, "pw1").nil
    /\ AuthenticateUser(Ab, "pw2").nil
    /\ nreq = 1

\* p is an update-account request whose target is the account of its token
SelfUpdate(p) ==
    /\ req[p].op = "UpdateUser"
    /\ req[p].tok # 0
    /\ req[p].name = TokenUser(p)

\* C17: an update-account request whose target is the requesting admin's
\* own account is answered Forbidden when authenticateUser returns, whatever
\* its body, never reaches the registry and leaves the store unchanged.
C17_NoSelfUpdate ==
    [][\A p \in Procs :
        SelfUpdate(p) =>
            /\ req[p].pc \in {"parse", "getuser"}
            /\ req'[p] # req[p] =>
                  /\ store' = store
                  /\ req[p].pc = "getuser" =>
                        /\ Finished(p)
                        /\ last' = [op |-> "UpdateUser", tok |-> req[p].tok, status |-> 403, body |-> NoBody]
                  /\ Finished(p) => last'.status = 403
      ]_vars

\* the one request so far carried the token of Root, an admin, and was
\* answered Forbidden: an update of Root by Root
C17_Witness ==
    /\ last = [op |-> "UpdateUser", tok |-> 1, status |-> 403, body |-> NoBody]
    /\ nreq = 1
    /\ \A p \in Procs : req[p].pc = "idle"
    /\ HasUser(store, Root) /\ store[userKey(Root)].v = RootAccount

\* C18: a login request whose token parses and whose account exists is
\* answered 200 with that account's name and admin flag, whatever credentials
\* its body holds, sets no cookie, issues no token and changes nothing
\* stored; the credentials are checked only for a request without such a
\* token, and a token is issued only by a credential check that succeeds,
\* for the account it authenticated.
C18_LoginWithToken ==
    [][/\ \A p \in Procs :
            (req[p].op = "Login" /\ req'[p] # req[p]) =>
                /\ store' = store
                /\ req[p].pc = "parse" =>
                      IF req[p].tok # 0 /\ now < tokens[req[p].tok].exp
                            /\ ~Revoked(store, req[p].tok)
                      THEN req'[p].pc = "getuser"
                      ELSE req'[p].pc = "login"
                /\ req[p].pc = "getuser" =>
                      IF HasUser(store, TokenUser(p))
                      THEN /\ Finished(p)
                           /\ last' = [op |-> "Login", tok |-> req[p].tok, status |-> 200,
                                       body |-> {[name |-> TokenUser(p),
                                                  admin |-> store[userKey(TokenUser(p))].v.admin,
                                                  token |-> 0]}]
                      ELSE req'[p].pc = "login"
                /\ req[p].pc # "login" => tokens' = tokens
       /\ tokens' # tokens =>
            \E p \in Procs :
                /\ req[p].op = "Login" /\ req[p].pc = "login" /\ Finished(p)
                /\ HasUser(store, req[p].name)
                /\ store[userKey(req[p].name)].v.password = Hash(req[p].pw)
                /\ tokens' = Append(tokens, [user |-> req[p].name, exp |-> now + SessionTTL])
      ]_vars

\* Root has logged in, and a second login carrying Root's token has been
\* answered with Root's public view; no second token exists
C18_Witness ==
    /\ last = [op |-> "Login", tok |-> 1, status |-> 200,
               body |-> {[name |-> Root, admin |-> TRUE, token |-> 0]}]
    /\ Len(tokens) = 1
    /\ now < tokens[1].exp
    /\ ~Revoked(store, 1)
    /\ nreq = 2

\* C19: every revocation marker in the store belongs to a token whose
\* expiresAt is still ahead and carries that time as its time-to-live; a
\* revoke with expiresAt - now <= 0 inserts nothing; a marker leaves the
\* store exactly when the clock reaches the token's expiresAt.
C19_MarkerLifetime ==
    [][\A t \in 1..Len(tokens) :
        /\ Revoked(store', t) =>
              /\ now' < tokens[t].exp
              /\ store'[revokedKey(t)].exp = tokens[t].exp
        /\ \A p \in Procs :
              (req[p].pc = "revoke" /\ req[p].tok = t /\ req'[p] # req[p]) =>
                  /\ last' = [op |-> "Logout", tok |-> t, status |-> 200, body |-> NoBody]
                  /\ IF tokens[t].exp - now <= 0
                     THEN store' = store
                     ELSE Revoked(store', t)
        /\ (Revoked(store, t) /\ ~Revoked(store', t)) => now' = tokens[t].exp
        /\ (Revoked(store, t) /\ now' < tokens[t].exp) => Revoked(store', t)
      ]_vars

\* token 1 has been logged out one tick before its expiry: its marker is
\* in the store
C19_Witness ==
    /\ last = [op |-> "Logout", tok |-> 1, status |-> 200, body |-> NoBody]
    /\ Len(tokens) >= 1
    /\ Revoked(store, 1)
    /\ now + 1 = tokens[1].exp
    /\ store[revokedKey(1)].exp = now + 1

\* the account named by token t is the one the token was issued to: in
\* InitQuota token 1 is Root's and token 2 is Ab's, and no operation of the
\* lifecycle changes a record, so a different record under the name was
\* created after the first one was deleted
IssuedAccount(t) ==
    /\ HasUser(store, tokens[t].user)
    /\ store[userKey(tokens[t].user)].v =
          (IF tokens[t].user = Root THEN RootAccount ELSE AbAccount)

\* C20: a token authorizes requests only for the account it was issued to:
\* once that account is deleted, a request presenting the token is answered
\* 401 or 403 at its account lookup and changes nothing, also after an
\* account with the same name has been created again.
C20_TokenBoundToAccount ==
    [][\A p \in Procs :
        (/\ req[p].pc = "getuser"
         /\ req'[p] # req[p]
         /\ ~IssuedAccount(req[p].tok)) =>
            /\ req'[p] = Idle
            /\ last'.op = req[p].op
            /\ last'.tok = req[p].tok
            /\ last'.status \in {401, 403}
            /\ store' = store
            /\ items' = items
      ]_vars

\* a step of the logout request of process p
LogoutStep(p) ==
    /\ req[p].op = "Logout"
    /\ req[p].pc \in {"logout", "revoke"}
    /\ req'[p] # req[p]

\* C21: a logout step adds at most the revocation marker of the token
\* presented: every other token parses to the same result before and after,
\* accounts, DataItems and issued tokens are unchanged, and a logout that is
\* refused (no cookie, expired or already revoked token) leaves the store
\* as it was.
C21_LogoutFrame ==
    [][\A p \in Procs : LogoutStep(p) =>
        /\ tokens' = tokens
        /\ items' = items
        /\ Registry(store') = Registry(store)
        /\ \A o \in Names :
              /\ DataKeysOf(store', o) = DataKeysOf(store, o)
              /\ \A k \in DataKeysOf(store, o) : store'[k] = store[k]
        /\ \A t \in 1..Len(tokens) :
              t # req[p].tok =>
                  /\ ParseAuthToken(t)' = ParseAuthToken(t)
                  /\ Revoked(store', t) = Revoked(store, t)
                  /\ Revoked(store, t) => store'[revokedKey(t)] = store[revokedKey(t)]
        /\ DOMAIN store' \ DOMAIN store \subseteq {revokedKey(req[p].tok)}
        /\ DOMAIN store \subseteq DOMAIN store'
        /\ (req[p].pc = "logout" \/ last'.status # 200) => store' = store
        /\ (req[p].pc = "logout" /\ req'[p] = Idle) =>
              /\ last' = [op |-> "Logout", tok |-> req[p].tok, status |-> 401, body |-> NoBody]
              /\ (req[p].tok = 0 \/ ParseAuthToken(req[p].tok) # "nil")
      ]_vars

\* Root's session has logged out: its marker is stored, Ab's token still
\* parses, both accounts and Root's DataItem are as before
C21_Witness ==
    /\ last = [op |-> "Logout", tok |-> 1, status |-> 200, body |-> NoBody]
    /\ Revoked(store, 1)
    /\ ParseAuthToken(1) = "Revoked"
    /\ ParseAuthToken(2) = "nil"
    /\ HasUser(store, Root) /\ HasUser(store, Ab)
    /\ GetAllDataFromUser(Root) = ItemsOf(Root)
    /\ ItemsOf(Root) # {}

====
